---- MODULE Spec2Model ----
(***************************************************************************)
(* Model of the check-in runner: configuration loading and validation      *)
(* (config.rs), the file logger (logger.rs), the per-account retry loop    *)
(* and the single check-in attempt (service.rs, duplicated in main.rs) and *)
(* the concurrent fan-out over the configured accounts (main.rs).          *)
(*                                                                         *)
(* Strings that the code inspects character by character (cookie, JSON     *)
(* string values) are sequences of one-character strings.  Timestamps      *)
(* (chrono::Local::now) are left out of the log lines.                     *)
(***************************************************************************)
EXTENDS Integers, Sequences, FiniteSets, TLC

\* ------------------------------------------------------------------ bounds
MaxAccounts == 2
MaxRetries == 2
MaxDelay == 1
\* accounts * max_retries of a configuration that is run
MaxAttempts == 4

\* ------------------------------------------------------------- JSON values
\* serde_json::Value as far as the code looks at it.
JNull == [t |-> "null", i |-> 0, s |-> <<>>]
JInt(n) == [t |-> "int", i |-> n, s |-> <<>>]
JStr(str) == [t |-> "str", i |-> 0, s |-> str]

\* Option values
None == [some |-> FALSE, v |-> <<>>]
Some(x) == [some |-> TRUE, v |-> x]

\* Value::as_i64 followed by unwrap_or(d)
AsI64Or(j, d) == IF j.t = "int" THEN j.i ELSE d

\* Value::as_str followed by unwrap_or(d)
AsStrOr(j, d) == IF j.t = "str" THEN j.s ELSE d

SplitDotFirst_keepsAll(str) == str

\* str::split('.').next(): the text before the first '.'
RECURSIVE SplitDotFirst(_)
SplitDotFirst(str) ==
    IF str = <<>> THEN <<>>
    ELSE IF Head(str) = "." THEN <<>>
    ELSE <<Head(str)>> \o SplitDotFirst(Tail(str))

\* response_json["list"].as_array().and_then(|arr| arr.first())
FirstItem(list) ==
    IF list.t = "arr" /\ Len(list.items) > 0 THEN Some(list.items[1]) ELSE None

\* ------------------------------------------------------------------ inputs
GoodCookie == <<"k", "=", "v">>
BadCookie == <<"k", "LF">>
Cookies == {GoodCookie, BadCookie}

\* HeaderValue::from_str: control characters are rejected
HeaderValueParse(cookie) == \A i \in 1..Len(cookie) : cookie[i] # "LF"

\* Account { email, cookie }: the email of the i-th account is written i
Accounts(n) ==
    { [i \in 1..n |-> [email |-> i, cookie |-> f[i]]] : f \in [1..n -> Cookies] }

\* Configurations explored: both delays for a single account, the longer one
\* when several accounts run side by side.
ConfigValues ==
    { c \in { [accounts |-> acc, max_retries |-> m, retry_delay |-> d, log_file |-> f] :
        acc \in UNION { Accounts(n) : n \in 0..MaxAccounts },
        m \in 0..MaxRetries, d \in {0, MaxDelay}, f \in {"", "checkin.log"} } :
        /\ Len(c.accounts) * c.max_retries <= MaxAttempts
        /\ Len(c.accounts) > 1 => c.retry_delay = MaxDelay }

NoConfig == [accounts |-> <<>>, max_retries |-> 0, retry_delay |-> 0, log_file |-> ""]

\* What is found at "config.yaml": nothing readable, text that does not
\* deserialize, or a Config value.
ConfigFiles ==
    { [st |-> "unreadable", cfg |-> NoConfig], [st |-> "malformed", cfg |-> NoConfig] }
    \cup { [st |-> "parsed", cfg |-> c] : c \in ConfigValues }

Items ==
    { [change |-> JStr(<<"1", "2", ".", "5", "0">>), balance |-> JStr(<<"9", ".", "9">>)],
      [change |-> JStr(<<"-", "3">>), balance |-> JNull],
      [change |-> JNull, balance |-> JStr(<<"7">>)] }

Lists ==
    { [t |-> "null", items |-> <<>>], [t |-> "str", items |-> <<>>],
      [t |-> "arr", items |-> <<>>] }
    \cup { [t |-> "arr", items |-> <<it>>] : it \in Items }

Msg == <<"m">>

\* Response bodies: text that is not JSON, or a JSON document.
BadBody == [valid |-> FALSE, raw |-> "<html>", code |-> JNull, message |-> JNull,
            list |-> [t |-> "null", items |-> <<>>]]

EmptyBody == [BadBody EXCEPT !.raw = ""]

Bodies ==
    { BadBody, EmptyBody }
    \cup { [valid |-> TRUE, raw |-> "json", code |-> JInt(1), message |-> m, list |-> l] :
            m \in {JStr(Msg)}, l \in Lists }
    \cup { [valid |-> TRUE, raw |-> "json", code |-> JInt(1), message |-> JNull,
            list |-> [t |-> "arr", items |-> <<it>>]] : it \in Items }
    \cup { [valid |-> TRUE, raw |-> "json", code |-> c, message |-> m,
            list |-> [t |-> "null", items |-> <<>>]] :
            c \in {JInt(0), JNull, JStr(<<"1">>)}, m \in {JStr(Msg), JNull} }

Statuses == {200, 500}

\* The replies explored for a run: every body when one account is run, one
\* body of each class (not JSON, code 1 with an item, code 1 without, another
\* code) when several accounts run side by side.
CoarseBodies ==
    { BadBody,
      [valid |-> TRUE, raw |-> "json", code |-> JInt(1), message |-> JStr(Msg),
       list |-> [t |-> "arr", items |-> <<CHOOSE it \in Items : it.balance = JNull>>]],
      [valid |-> TRUE, raw |-> "json", code |-> JInt(1), message |-> JStr(Msg),
       list |-> [t |-> "arr", items |-> <<>>]],
      [valid |-> TRUE, raw |-> "json", code |-> JInt(0), message |-> JNull,
       list |-> [t |-> "null", items |-> <<>>]] }

RemoteBodies(cfg) == IF Len(cfg.accounts) = 1 THEN Bodies ELSE CoarseBodies

\* ------------------------------------------------------------------ errors
\* Box<dyn Error> values, by what produced them.
MkErr(kind, status, msg, raw) == [kind |-> kind, status |-> status, msg |-> msg, raw |-> raw]
NoErr == MkErr("none", 0, <<>>, "")
HeaderErr == MkErr("header", 0, <<>>, "")
SendErr == MkErr("send", 0, <<>>, "")
BodyErr == MkErr("body", 0, <<>>, "")
IoErr == MkErr("io", 0, <<>>, "")
ParseErr_dropsBody(body) == MkErr("parse", 0, <<>>, "")

\* "parse failed: {e}\n body: {body}"
ParseErr(body) == MkErr("parse", 0, <<>>, body.raw)
BusinessErr(status, msg) == MkErr("business", status, msg, "")

\* ------------------------------------------------------------------- lines
MkLine(kind, email, message, change, balance, n, e) ==
    [kind |-> kind, email |-> email, message |-> message, change |-> change,
     balance |-> balance, retries |-> n, error |-> e, nl |-> FALSE]
SuccessLine(email, message, change, balance) ==
    MkLine("success", email, message, change, balance, 0, NoErr)
ExhaustedLine(email, n, e) == MkLine("exhausted", email, <<>>, <<>>, <<>>, n, e)
FailedLine(email, e) == MkLine("failed", email, <<>>, <<>>, <<>>, 0, e)
LogErrLine(e) == MkLine("logerr", 0, <<>>, <<>>, <<>>, 0, e)

\* format!("{}{}", content, "\n"), and what println! and eprintln! emit
Terminated(content) == [content EXCEPT !.nl = TRUE]
Println(content) == <<Terminated(content)>>

VARIABLES
    configFile,   \* the content of config.yaml
    mainPc,       \* position of main: "load", "build", "run", "exited"
    exitCode,     \* process exit code, -1 while running
    config,       \* the loaded Config
    client,       \* the reqwest client: "none", "built", "failed"
    pc,           \* per account task: "ready", "send", "text", "sleep", "done"
    retries,      \* per account: the local counter of checkin
    status,       \* per account: HTTP status of the response being read
    result,       \* per account: what checkin returned: "none", "Ok", "Err"
    err,          \* per account: the error checkin returned
    trace,        \* per account: attempts begun and delays begun, in order
    last,         \* per account: what the attempt completed by the latest step of
                  \* the task saw and returned; NoOutcome while one is in flight
    good,         \* per account: attempts answered with code 1 and a list item
    http,         \* per account: HTTP requests sent
    logCalls,     \* per account: calls of Logger::log
    log,          \* the log file, a sequence of lines
    stderr,       \* the error stream
    stdout        \* the output stream

vars == <<configFile, mainPc, exitCode, config, client, pc, retries, status, result, err,
          trace, last, good, http, logCalls, log, stderr, stdout>>

taskVars == <<pc, retries, status, result, err, trace, last, good, http, logCalls>>
ioVars == <<log, stderr, stdout>>

Tasks == DOMAIN pc

\* ------------------------------------------------------------ config.rs
Validate_noLogFileCheck(cfg) ==
    IF Len(cfg.accounts) = 0 THEN "No accounts configured"
    ELSE IF cfg.max_retries = 0 THEN "max_retries must be greater than 0"
    ELSE "ok"

\* Config::validate: the first failing check decides the error
Validate(cfg) ==
    IF Len(cfg.accounts) = 0 THEN "No accounts configured"
    ELSE IF cfg.max_retries = 0 THEN "max_retries must be greater than 0"
    ELSE IF cfg.log_file = "" THEN "log_file path must not be empty"
    ELSE "ok"

\* Config::load_from_file: read, deserialize, validate
LoadFromFile(file) ==
    IF file.st = "unreadable" THEN "read error"
    ELSE IF file.st = "malformed" THEN "deserialize error"
    ELSE Validate(file.cfg)

\* ------------------------------------------------------------ logger.rs
LoggerLog_noNewline(content, ok) ==
    [ok |-> ok, lines |-> IF ok THEN <<content>> ELSE <<>>]

\* FileLogger::log: open for append and write the line and its newline in one
\* write_all; ok is whether the file system lets both succeed.
LoggerLog(content, ok) ==
    [ok |-> ok, lines |-> IF ok THEN <<Terminated(content)>> ELSE <<>>]

\* ----------------------------------------------------------- service.rs
\* Result of one try_checkin: the returned value, what it printed, how often
\* it called the logger and what reached the log.
AttemptResult(ok, e, out, calls, lines) ==
    [ok |-> ok, err |-> e, out |-> out, calls |-> calls, lines |-> lines]

\* the test on the code field
IsSuccessCode(body) == AsI64Or(body.code, 0) = 1

OnSuccessCode_noLog(account, body, okS) ==
    LET message == AsStrOr(body.message, <<"No message">>)
        first == FirstItem(body.list)
    IN  IF first.some
        THEN LET change == SplitDotFirst(AsStrOr(first.v.change, <<"0">>))
                 balance == SplitDotFirst(AsStrOr(first.v.balance, <<"0">>))
                 line == SuccessLine(account.email, message, change, balance)
             IN  AttemptResult(TRUE, NoErr, Println(line), 0, <<>>)
        ELSE AttemptResult(TRUE, NoErr, <<>>, 0, <<>>)

OnSuccessCode_logsWithoutItem(account, body, okS) ==
    LET message == AsStrOr(body.message, <<"No message">>)
        first == FirstItem(body.list)
        item == IF first.some THEN first.v ELSE [change |-> JNull, balance |-> JNull]
        change == SplitDotFirst(AsStrOr(item.change, <<"0">>))
        balance == SplitDotFirst(AsStrOr(item.balance, <<"0">>))
        line == SuccessLine(account.email, message, change, balance)
        w == LoggerLog(line, okS)
    IN  AttemptResult(w.ok, IF w.ok THEN NoErr ELSE IoErr, Println(line), 1, w.lines)

\* the success branch of try_checkin
OnSuccessCode(account, body, okS) ==
    LET message == AsStrOr(body.message, <<"No message">>)
        first == FirstItem(body.list)
    IN  IF first.some
        THEN LET change == SplitDotFirst(AsStrOr(first.v.change, <<"0">>))
                 balance == SplitDotFirst(AsStrOr(first.v.balance, <<"0">>))
                 line == SuccessLine(account.email, message, change, balance)
                 w == LoggerLog(line, okS)
             IN  AttemptResult(w.ok, IF w.ok THEN NoErr ELSE IoErr, Println(line), 1, w.lines)
        ELSE AttemptResult(TRUE, NoErr, <<>>, 0, <<>>)

\* try_checkin from the point where the body text has arrived
OnBody(account, st, body, okS) ==
    IF ~body.valid THEN AttemptResult(FALSE, ParseErr(body), <<>>, 0, <<>>)
    ELSE IF IsSuccessCode(body) THEN OnSuccessCode(account, body, okS)
    ELSE AttemptResult(FALSE,
                       BusinessErr(st, AsStrOr(body.message, <<"unknown error">>)),
                       <<>>, 0, <<>>)

Exhausted_offByOne(r, max) == r > max

Exhausted_firstIsFree(r, max) == r > 1 /\ r >= max

\* the retry budget test of checkin
Exhausted(r, max) == r >= max

\* the delay of checkin
DelaySecs(cfg) == cfg.retry_delay

CheckinOnErr_reportsEach(cfg, account, n, e, okE) ==
    LET r == n + 1
        line == ExhaustedLine(account.email, r, e)
        w == LoggerLog(line, okE)
    IN  IF Exhausted(r, cfg.max_retries)
        THEN [retries |-> r, next |-> "return", err |-> IF w.ok THEN e ELSE IoErr,
              eout |-> Println(line), calls |-> 1, lines |-> w.lines, secs |-> 0]
        ELSE [retries |-> r, next |-> "sleep", err |-> NoErr,
              eout |-> Println(line), calls |-> 0, lines |-> <<>>, secs |-> DelaySecs(cfg)]

\* the Err arm of checkin
CheckinOnErr(cfg, account, n, e, okE) ==
    LET r == n + 1
    IN  IF Exhausted(r, cfg.max_retries)
        THEN LET line == ExhaustedLine(account.email, r, e)
                 w == LoggerLog(line, okE)
             IN  [retries |-> r, next |-> "return", err |-> IF w.ok THEN e ELSE IoErr,
                  eout |-> Println(line), calls |-> 1, lines |-> w.lines, secs |-> 0]
        ELSE [retries |-> r, next |-> "sleep", err |-> NoErr,
              eout |-> <<>>, calls |-> 0, lines |-> <<>>, secs |-> DelaySecs(cfg)]

\* --------------------------------------------------------------- main.rs
TaskOnErr_noLog(account, e, okO) ==
    [eout |-> Println(FailedLine(account.email, e)), calls |-> 0, lines |-> <<>>]

\* the Err arm of the per-account future
TaskOnErr(account, e, okO) ==
    LET line == FailedLine(account.email, e)
        w == LoggerLog(line, okO)
    IN  [eout |-> Println(line) \o (IF w.ok THEN <<>> ELSE Println(LogErrLine(IoErr))),
         calls |-> 1, lines |-> w.lines]

Polled_lostWakeup(a) == mainPc = "run" /\ pc[a] \notin {"done", "sleep"}

Polled_oneAfterAnother(a) ==
    mainPc = "run" /\ pc[a] # "done" /\ \A b \in 1..(a - 1) : pc[b] = "done"

\* join_all polls every future that is not finished
Polled(a) == mainPc = "run" /\ pc[a] # "done"

JoinAllReady_firstErr ==
    \/ \A a \in Tasks : pc[a] = "done"
    \/ \E a \in Tasks : result[a] = "Err"

\* join_all is ready when every future is finished
JoinAllReady == \A a \in Tasks : pc[a] = "done"

MainExitCode_failOnErr(results) ==
    IF \E a \in DOMAIN results : results[a] = "Err" THEN 1 ELSE 0

\* the value main returns after join_all: Ok(()), exit code 0
MainExitCode(results) == 0

AttemptEv == [ev |-> "attempt", secs |-> 0]
SleepEv(d) == [ev |-> "sleep", secs |-> d]

Outcome(src, body, at) ==
    [src |-> src, body |-> body, ok |-> at.ok, err |-> at.err,
     calls |-> at.calls, wrote |-> Len(at.lines)]
NoOutcome == Outcome("none", BadBody, AttemptResult(FALSE, NoErr, <<>>, 0, <<>>))

\* the reply is a JSON document with code 1 whose list has a first element
GoodReply(src, body) ==
    /\ src = "body"
    /\ body.valid
    /\ body.code = JInt(1)
    /\ body.list.t = "arr"
    /\ Len(body.list.items) > 0

RetriesAfter_shared(rs, a, r) == [b \in DOMAIN rs |-> r]

\* retries += 1 on the counter local to the checkin call of account a
RetriesAfter(rs, a, r) == [rs EXCEPT ![a] = r]

\* One try_checkin of account a has returned `at`: the rest of the poll, that
\* is the match in checkin and, when checkin returns, the match in the task.
Settle(a, tr, src, body, at, okE, okO) ==
    LET account == config.accounts[a]
        arm == CheckinOnErr(config, account, retries[a], at.err, okE)
        orch == TaskOnErr(account, arm.err, okO)
    IN  /\ last' = [last EXCEPT ![a] = Outcome(src, body, at)]
        /\ good' = [good EXCEPT ![a] = IF GoodReply(src, body) THEN @ + 1 ELSE @]
        /\ status' = [status EXCEPT ![a] = 0]
        /\ stdout' = stdout \o at.out
        /\ IF at.ok
           THEN /\ pc' = [pc EXCEPT ![a] = "done"]
                /\ result' = [result EXCEPT ![a] = "Ok"]
                /\ trace' = [trace EXCEPT ![a] = tr]
                /\ logCalls' = [logCalls EXCEPT ![a] = @ + at.calls]
                /\ log' = log \o at.lines
                /\ UNCHANGED <<retries, err, stderr>>
           ELSE IF arm.next = "sleep"
           THEN /\ pc' = [pc EXCEPT ![a] = "sleep"]
                /\ retries' = RetriesAfter(retries, a, arm.retries)
                /\ trace' = [trace EXCEPT ![a] = Append(tr, SleepEv(arm.secs))]
                /\ logCalls' = [logCalls EXCEPT ![a] = @ + at.calls + arm.calls]
                /\ log' = log \o at.lines \o arm.lines
                /\ stderr' = stderr \o arm.eout
                /\ UNCHANGED <<result, err>>
           ELSE /\ pc' = [pc EXCEPT ![a] = "done"]
                /\ retries' = RetriesAfter(retries, a, arm.retries)
                /\ result' = [result EXCEPT ![a] = "Err"]
                /\ err' = [err EXCEPT ![a] = arm.err]
                /\ trace' = [trace EXCEPT ![a] = tr]
                /\ logCalls' = [logCalls EXCEPT ![a] = @ + at.calls + arm.calls + orch.calls]
                /\ log' = log \o at.lines \o arm.lines \o orch.lines
                /\ stderr' = stderr \o arm.eout \o orch.eout

\* try_checkin up to its first await: the cookie becomes a header value and
\* the request is sent, or the header error is returned at once.
BeginAttempt(a) ==
    LET tr == Append(trace[a], AttemptEv)
    IN  IF HeaderValueParse(config.accounts[a].cookie)
        THEN /\ pc' = [pc EXCEPT ![a] = "send"]
             /\ http' = [http EXCEPT ![a] = @ + 1]
             /\ trace' = [trace EXCEPT ![a] = tr]
             /\ last' = [last EXCEPT ![a] = NoOutcome]
             /\ UNCHANGED <<retries, status, result, err, good, logCalls, ioVars>>
        ELSE /\ \E okE, okO \in BOOLEAN :
                    Settle(a, tr, "cookie", BadBody,
                           AttemptResult(FALSE, HeaderErr, <<>>, 0, <<>>), okE, okO)
             /\ UNCHANGED http

\* ----------------------------------------------------------------- actions
\* main: Config::load_from_file("config.yaml")?
LoadConfig ==
    /\ mainPc = "load"
    /\ IF LoadFromFile(configFile) = "ok"
       THEN /\ config' = configFile.cfg
            /\ mainPc' = "build"
            /\ UNCHANGED exitCode
       ELSE /\ mainPc' = "exited"
            /\ exitCode' = 1
            /\ UNCHANGED config
    /\ UNCHANGED <<configFile, client, taskVars, ioVars>>

\* main: reqwest::Client::builder().build()?, then the futures are made
BuildClient ==
    /\ mainPc = "build"
    /\ \E ok \in BOOLEAN :
        IF ok
        THEN LET T == 1..Len(config.accounts)
             IN  /\ mainPc' = "run"
                 /\ client' = "built"
                 /\ pc' = [a \in T |-> "ready"]
                 /\ retries' = [a \in T |-> 0]
                 /\ status' = [a \in T |-> 0]
                 /\ result' = [a \in T |-> "none"]
                 /\ err' = [a \in T |-> NoErr]
                 /\ trace' = [a \in T |-> <<>>]
                 /\ last' = [a \in T |-> NoOutcome]
                 /\ good' = [a \in T |-> 0]
                 /\ http' = [a \in T |-> 0]
                 /\ logCalls' = [a \in T |-> 0]
                 /\ UNCHANGED exitCode
        ELSE /\ mainPc' = "exited"
             /\ client' = "failed"
             /\ exitCode' = 1
             /\ UNCHANGED taskVars
    /\ UNCHANGED <<configFile, config, ioVars>>

\* first poll of the future of account a
FirstPoll(a) ==
    /\ Polled(a)
    /\ pc[a] = "ready"
    /\ BeginAttempt(a)
    /\ UNCHANGED <<configFile, mainPc, exitCode, config, client>>

\* request.send().await completes
SendComplete(a) ==
    /\ Polled(a)
    /\ pc[a] = "send"
    /\ \/ \E st \in Statuses :
            /\ pc' = [pc EXCEPT ![a] = "text"]
            /\ status' = [status EXCEPT ![a] = st]
            /\ UNCHANGED <<retries, result, err, trace, last, good, logCalls, ioVars>>
       \/ \E okE, okO \in BOOLEAN :
            Settle(a, trace[a], "send", BadBody,
                   AttemptResult(FALSE, SendErr, <<>>, 0, <<>>), okE, okO)
    /\ UNCHANGED <<configFile, mainPc, exitCode, config, client, http>>

\* response.text().await completes
TextComplete(a) ==
    /\ Polled(a)
    /\ pc[a] = "text"
    /\ \/ \E body \in RemoteBodies(config), okS, okE, okO \in BOOLEAN :
            Settle(a, trace[a], "body", body,
                   OnBody(config.accounts[a], status[a], body, okS), okE, okO)
       \/ \E okE, okO \in BOOLEAN :
            Settle(a, trace[a], "text", BadBody,
                   AttemptResult(FALSE, BodyErr, <<>>, 0, <<>>), okE, okO)
    /\ UNCHANGED <<configFile, mainPc, exitCode, config, client, http>>

\* sleep(..).await completes and the loop calls try_checkin again
Wake(a) ==
    /\ Polled(a)
    /\ pc[a] = "sleep"
    /\ BeginAttempt(a)
    /\ UNCHANGED <<configFile, mainPc, exitCode, config, client>>

\* join_all(futures).await completes and main returns Ok(())
Exit ==
    /\ mainPc = "run"
    /\ JoinAllReady
    /\ mainPc' = "exited"
    /\ exitCode' = MainExitCode(result)
    /\ UNCHANGED <<configFile, config, client, taskVars, ioVars>>

Init ==
    /\ configFile \in ConfigFiles
    /\ mainPc = "load"
    /\ exitCode = -1
    /\ config = NoConfig
    /\ client = "none"
    /\ pc = <<>>
    /\ retries = <<>>
    /\ status = <<>>
    /\ result = <<>>
    /\ err = <<>>
    /\ trace = <<>>
    /\ last = <<>>
    /\ good = <<>>
    /\ http = <<>>
    /\ logCalls = <<>>
    /\ log = <<>>
    /\ stderr = <<>>
    /\ stdout = <<>>

Next ==
    \/ LoadConfig
    \/ BuildClient
    \/ \E a \in Tasks : FirstPoll(a)
    \/ \E a \in Tasks : SendComplete(a)
    \/ \E a \in Tasks : TextComplete(a)
    \/ \E a \in Tasks : Wake(a)
    \/ Exit

Spec == Init /\ [][Next]_vars

\* -------------------------------------------------------- derived notions
RECURSIVE CountEv(_, _)
CountEv(tr, ev) ==
    IF tr = <<>> THEN 0
    ELSE (IF Head(tr).ev = ev THEN 1 ELSE 0) + CountEv(Tail(tr), ev)

\* try_checkin calls begun, delays begun
Attempts(a) == CountEv(trace[a], "attempt")
Delays(a) == CountEv(trace[a], "sleep")

\* n attempts with a delay of d seconds between each two
RECURSIVE Alternating(_, _)
Alternating(n, d) ==
    IF n <= 1 THEN <<AttemptEv>>
    ELSE Alternating(n - 1, d) \o <<SleepEv(d), AttemptEv>>

LinesOf(stream, a) == SelectSeq(stream, LAMBDA l : l.kind # "logerr" /\ l.email = a)
SuccessLinesOf(stream, a) == SelectSeq(LinesOf(stream, a), LAMBDA l : l.kind = "success")
FailureLinesOf(stream, a) == SelectSeq(LinesOf(stream, a), LAMBDA l : l.kind # "success")
Kinds(lines) == [i \in 1..Len(lines) |-> lines[i].kind]

\* every Logger::log call made for account a put its line into the log
AppendsOk(a) == logCalls[a] = Len(LinesOf(log, a))

\* the error stream tells of a failed append
AppendFailureReported ==
    \E i \in 1..Len(stderr) : stderr[i].kind = "logerr" \/ stderr[i].error.kind = "io"

\* the attempt just completed for a was answered by a JSON document with code 1
AnsweredCode1(a) ==
    /\ last[a].src = "body"
    /\ last[a].body.valid
    /\ last[a].body.code = JInt(1)

\* the text up to, not including, the first "."
CutAtDot(str) ==
    LET dots == { i \in 1..Len(str) : str[i] = "." }
    IN  IF dots = {} THEN str
        ELSE SubSeq(str, 1, (CHOOSE i \in dots : \A j \in dots : i <= j) - 1)

FieldText(j) == IF j.t = "str" THEN CutAtDot(j.s) ELSE <<"0">>

\* ------------------------------------------------------------------ claims

\* C1: an account whose every attempt failed and whose task is finished made
\* exactly max_retries attempts with max_retries - 1 delays, each of
\* retry_delay seconds and each between two attempts, and checkin returned Err.
C1_AllFailing ==
    \A a \in Tasks :
        (pc[a] = "done" /\ retries[a] = Attempts(a)) =>
            /\ trace[a] = Alternating(config.max_retries, config.retry_delay)
            /\ Attempts(a) = config.max_retries
            /\ Delays(a) = config.max_retries - 1
            /\ result[a] = "Err"
            /\ err[a] # NoErr

C1_Witness ==
    \E a \in Tasks :
        /\ pc[a] = "done" /\ retries[a] = Attempts(a)
        /\ config.max_retries = 2 /\ config.retry_delay = MaxDelay
        /\ Delays(a) = 1

\* C2: once an attempt is answered by a JSON document with code 1, checkin
\* returns Ok and the account makes no further attempt and takes no delay,
\* whether the log append succeeds or fails.
C2_SuccessTerminal ==
    \A a \in Tasks :
        AnsweredCode1(a) => (pc[a] = "done" /\ result[a] = "Ok")

\* C3: a failed log append is told on the error stream and swallowed (it does
\* not turn the attempt into a failure), and the run goes on to finish every
\* account.
C3_AppendFailureSwallowed ==
    /\ \A a \in Tasks : (~AppendsOk(a)) => AppendFailureReported
    /\ \A a \in Tasks : (AnsweredCode1(a) /\ last[a].calls > last[a].wrote) => last[a].ok
    /\ (mainPc = "exited" /\ client = "built") => \A a \in Tasks : pc[a] = "done"

\* C4: an account with a well-formed cookie whose every attempt was answered
\* with code 1 and a list item, all appends succeeding, ends Ok after exactly
\* one attempt; the log has exactly one success line for it, with change and
\* balance cut at the first ".", and no failure line.
C4_SuccessLogged ==
    \A a \in Tasks :
        ( /\ pc[a] = "done"
          /\ HeaderValueParse(config.accounts[a].cookie)
          /\ good[a] = Attempts(a)
          /\ AppendsOk(a) ) =>
            LET item == last[a].body.list.items[1]
                lines == SuccessLinesOf(log, a)
            IN  /\ result[a] = "Ok"
                /\ Attempts(a) = 1
                /\ http[a] = 1
                /\ Len(lines) = 1
                /\ lines[1].change = FieldText(item.change)
                /\ lines[1].balance = FieldText(item.balance)
                /\ FailureLinesOf(log, a) = <<>>

C4_Witness ==
    \E a \in Tasks :
        /\ pc[a] = "done" /\ good[a] = Attempts(a) /\ AppendsOk(a)
        /\ Len(SuccessLinesOf(log, a)) = 1
        /\ SuccessLinesOf(log, a)[1].change = <<"1", "2">>
        /\ last[a].body.list.items[1].change = JStr(<<"1", "2", ".", "5", "0">>)

\* C5: for an account whose checkin returned Err, all appends succeeding, the
\* log holds exactly two failure lines for it, the exhaustion line first and
\* the processing-failed line second, and both are on the error stream too.
C5_TwoFailureLines ==
    \A a \in Tasks :
        (result[a] = "Err" /\ AppendsOk(a)) =>
            /\ Kinds(FailureLinesOf(log, a)) = <<"exhausted", "failed">>
            /\ FailureLinesOf(stderr, a) = FailureLinesOf(log, a)

C5_Witness ==
    \E a \in Tasks :
        /\ result[a] = "Err" /\ AppendsOk(a)
        /\ Len(FailureLinesOf(log, a)) = 2
        /\ Len(stderr) >= 2

\* a step of the task of account a
TaskStep(a) == FirstPoll(a) \/ SendComplete(a) \/ TextComplete(a) \/ Wake(a)

\* C6: while the accounts run, every unfinished account can take its next
\* step whatever the other accounts are doing (delayed, exhausted or not yet
\* started), so an account that succeeds at once finishes without waiting
\* for a failing one.
C6_Independent ==
    \A a \in Tasks :
        (mainPc = "run" /\ pc[a] # "done") => ENABLED TaskStep(a)

C6_Witness ==
    \E a, b \in Tasks :
        /\ a > b
        /\ pc[a] = "done" /\ result[a] = "Ok" /\ Attempts(a) = 1
        /\ Len(SuccessLinesOf(log, a)) = 1
        /\ pc[b] = "sleep"

\* C7: once the tasks exist, main exits only after every configured account
\* has a task that ran and reached Ok or Err.
C7_ExitAfterAll ==
    /\ client = "built" => Tasks = 1..Len(config.accounts)
    /\ (mainPc = "exited" /\ client = "built") =>
            \A a \in Tasks :
                /\ pc[a] = "done"
                /\ result[a] \in {"Ok", "Err"}
                /\ Attempts(a) >= 1

C7_Witness ==
    /\ mainPc = "exited"
    /\ \E a, b \in Tasks : a < b /\ result[a] = "Err" /\ result[b] = "Ok" /\ http[b] >= 1

\* the file holds a configuration that passes the three checks
FileValid ==
    /\ configFile.st = "parsed"
    /\ Len(configFile.cfg.accounts) > 0
    /\ configFile.cfg.max_retries > 0
    /\ configFile.cfg.log_file # ""

NothingProcessed ==
    /\ Tasks = {}
    /\ log = <<>> /\ stdout = <<>> /\ stderr = <<>>

\* C8: the exit code is 0 exactly when the configuration was loaded and the
\* client was built, whatever the accounts' results; when it is not 0, no
\* account was processed.
C8_ExitCode ==
    mainPc = "exited" =>
        /\ (exitCode = 0) <=> (FileValid /\ client = "built")
        /\ exitCode # 0 => NothingProcessed

C8_Witness ==
    /\ mainPc = "exited" /\ exitCode = 0
    /\ \A a \in Tasks : result[a] = "Err"
    /\ \E a \in Tasks : ~AppendsOk(a)

\* C9: a configuration is rejected exactly when its accounts are empty, its
\* max_retries is 0 or its log_file is empty; a rejected one ends the run
\* with an error before any request or log line.
C9_Validation ==
    LET cfg == configFile.cfg
        rejected == mainPc = "exited" /\ client = "none"
    IN  (mainPc # "load" /\ configFile.st = "parsed") =>
            /\ rejected <=>
                  (Len(cfg.accounts) = 0 \/ cfg.max_retries = 0 \/ cfg.log_file = "")
            /\ rejected => (exitCode = 1 /\ config = NoConfig /\ NothingProcessed)
            /\ ~rejected => config = cfg

C9_Witness ==
    /\ mainPc = "exited" /\ exitCode = 1
    /\ configFile.st = "parsed"
    /\ Len(configFile.cfg.accounts) > 0 /\ configFile.cfg.max_retries > 0
    /\ configFile.cfg.log_file = ""

\* C10: an attempt answered with code 1 and no first list element (list
\* absent, not an array, or empty) counts as succeeded: checkin returns Ok
\* with no retry, and the attempt calls the logger zero times and writes no
\* line.
C10_NoItemNoLog ==
    \A a \in Tasks :
        (AnsweredCode1(a) /\ ~GoodReply(last[a].src, last[a].body)) =>
            /\ pc[a] = "done" /\ result[a] = "Ok"
            /\ last[a].calls = 0 /\ last[a].wrote = 0
            /\ Attempts(a) = 1 => (logCalls[a] = 0 /\ LinesOf(log, a) = <<>>
                                    /\ LinesOf(stdout, a) = <<>>)

C10_Witness ==
    \E a \in Tasks :
        /\ AnsweredCode1(a) /\ last[a].body.list.t = "str"
        /\ pc[a] = "done" /\ Attempts(a) = 2

IsPrefix(s, t) == Len(s) <= Len(t) /\ SubSeq(t, 1, Len(s)) = s

\* C11: a failed attempt that does not exhaust the budget writes no log line
\* and nothing on the error stream: an account that has not ended in Err has
\* no failure line in the log and no line on the error stream, and while
\* no account has ended in Err the error stream is empty and the log holds
\* success lines only.
C11_Contained ==
    /\ \A a \in Tasks :
          result[a] # "Err" =>
              (FailureLinesOf(log, a) = <<>> /\ LinesOf(stderr, a) = <<>>)
    /\ \A a \in Tasks : pc[a] = "sleep" => (~last[a].ok /\ last[a].wrote = 0)
    /\ (\A a \in Tasks : result[a] # "Err") =>
          (stderr = <<>> /\ \A i \in 1..Len(log) : log[i].kind = "success")

C11_Witness ==
    /\ mainPc = "exited" /\ Len(log) >= 1
    /\ \A a \in Tasks : result[a] = "Ok"
    /\ \E a \in Tasks : Attempts(a) = 2 /\ retries[a] = 1

\* C12: no attempt has put both a success line and a failure line into the
\* log, and every completed attempt ended as a success or as exactly one of
\* a transport, a parse or a business failure.
C12_OneOutcome ==
    \A a \in Tasks :
        last[a].src # "none" =>
            /\ last[a].wrote = 1 => FailureLinesOf(log, a) = <<>>
            /\ \/ last[a].ok
               \/ last[a].err.kind \in {"header", "send", "body", "parse", "business"}

\* C13: the log receives whole lines: a step appends at the end of the log
\* only, what it appends are newline-terminated lines of the one account
\* whose task takes the step, at most one for each logger call it made.
C13_WholeLines ==
    [][ \/ log' = log
        \/ \E a \in Tasks :
              LET added == SubSeq(log', Len(log) + 1, Len(log'))
              IN  /\ IsPrefix(log, log')
                  /\ Len(added) <= logCalls'[a] - logCalls[a]
                  /\ \A i \in 1..Len(added) : added[i].nl /\ added[i].email = a ]_vars

C13_Witness ==
    /\ Len(log) >= 3
    /\ \E i \in 1..(Len(log) - 1) : log[i].email # log[i + 1].email
    /\ \A n \in 1..Len(log) : log[n].nl

\* C14: whether an attempt succeeds is decided by the code field alone: it
\* succeeds exactly when code is the integer 1, and otherwise it is a
\* business failure carrying the HTTP status and the message (or the
\* unknown-error text).
C14_CodeDecides ==
    \A a \in Tasks :
        (last[a].src = "body" /\ last[a].body.valid) =>
            /\ last[a].ok <=> last[a].body.code = JInt(1)
            /\ last[a].body.code # JInt(1) =>
                  /\ last[a].err.kind = "business"
                  /\ last[a].err.status \in Statuses
                  /\ last[a].err.msg = IF last[a].body.message.t = "str"
                                        THEN last[a].body.message.s
                                        ELSE <<"unknown error">>

\* C15: the change and balance of a success line are the string fields of the
\* first list element cut at the first ".", without rounding: "12.50" gives
\* "12", "9.9" gives "9", "-3" stays, and a missing field gives "0".
C15_Truncated ==
    \A a \in Tasks :
        (GoodReply(last[a].src, last[a].body) /\ last[a].wrote = 1) =>
            LET item == last[a].body.list.items[1]
                lines == SuccessLinesOf(log, a)
                line == lines[Len(lines)]
            IN  /\ Len(lines) >= 1
                /\ line.change = FieldText(item.change)
                /\ line.balance = FieldText(item.balance)
                /\ item.change = JStr(<<"1", "2", ".", "5", "0">>) => line.change = <<"1", "2">>
                /\ item.balance = JStr(<<"9", ".", "9">>) => line.balance = <<"9">>
                /\ item.change = JStr(<<"-", "3">>) => line.change = <<"-", "3">>
                /\ item.change = JNull => line.change = <<"0">>
                /\ item.balance = JNull => line.balance = <<"0">>

C15_Witness ==
    \E a \in Tasks :
        /\ GoodReply(last[a].src, last[a].body) /\ last[a].wrote = 1
        /\ last[a].body.list.items[1].change = JNull
        /\ \E i \in 1..Len(log) : log[i].change = <<"0">> /\ log[i].balance = <<"7">>

\* C16: an attempt whose body is not JSON fails with a parse error that holds
\* the body as received, makes no logger call and writes no line, and is
\* retried like any other failure: a delay of retry_delay follows unless the
\* budget is used up, in which case the account ends in Err.
C16_ParseFailure ==
    \A a \in Tasks :
        (last[a].src = "body" /\ ~last[a].body.valid) =>
            /\ ~last[a].ok
            /\ last[a].err.kind = "parse"
            /\ last[a].err.raw = last[a].body.raw
            /\ last[a].calls = 0 /\ last[a].wrote = 0
            /\ retries[a] < config.max_retries =>
                  /\ pc[a] = "sleep"
                  /\ trace[a][Len(trace[a])] = SleepEv(config.retry_delay)
            /\ retries[a] >= config.max_retries => result[a] = "Err"

C16_Witness ==
    \E a \in Tasks :
        /\ last[a].src = "body" /\ last[a].body = EmptyBody
        /\ pc[a] = "sleep" /\ last[a].err.raw = ""

\* C17: when the budget is used up, the error checkin returns, and so the
\* error of the processing-failed line, is the failure of the final attempt,
\* and the exhaustion line gives max_retries as the attempt count.
C17_FinalError ==
    \A a \in Tasks :
        result[a] = "Err" =>
            /\ err[a] = last[a].err
            /\ FailureLinesOf(stderr, a) =
                  <<Terminated(ExhaustedLine(config.accounts[a].email,
                                             config.max_retries, last[a].err)),
                    Terminated(FailedLine(config.accounts[a].email, last[a].err))>>

\* C18: an account never makes more than max_retries attempts nor more delays
\* than attempts, and once its task is finished delays = attempts - 1, the
\* last thing it did being an attempt.
C18_Budget ==
    \A a \in Tasks :
        /\ Attempts(a) <= config.max_retries
        /\ Delays(a) <= Attempts(a)
        /\ pc[a] = "done" =>
              /\ Delays(a) = Attempts(a) - 1
              /\ trace[a][Len(trace[a])] = AttemptEv

C18_Witness ==
    \E a \in Tasks :
        /\ pc[a] = "done" /\ result[a] = "Ok"
        /\ Attempts(a) = 2 /\ Delays(a) = 1

\* Scheduling: main runs on, every request and every body read returns, every
\* timer fires, and join_all keeps polling each unfinished future.
FairStep(a) == a \in Tasks /\ TaskStep(a)

FairSpec ==
    /\ Spec
    /\ WF_vars(LoadConfig)
    /\ WF_vars(BuildClient)
    /\ \A a \in 1..(MaxAccounts + 1) : WF_vars(FairStep(a))
    /\ WF_vars(Exit)

\* C19: under that scheduling every run ends: main exits, and every account
\* task that was started has then ended in Ok or Err.
C19_Terminates ==
    <>(mainPc = "exited" /\ \A a \in Tasks : result[a] \in {"Ok", "Err"})

C19_Witness ==
    /\ mainPc = "exited" /\ exitCode = 0
    /\ \E a \in Tasks : result[a] = "Err" /\ Attempts(a) = 2
    /\ \E a \in Tasks : ~AppendsOk(a)

\* the task of account a has moved in this step
Moved(a) ==
    \/ pc'[a] # pc[a] \/ retries'[a] # retries[a] \/ status'[a] # status[a]
    \/ result'[a] # result[a] \/ err'[a] # err[a] \/ trace'[a] # trace[a]
    \/ last'[a] # last[a] \/ good'[a] # good[a] \/ http'[a] # http[a]

\* C20: a step of one account's task changes nothing of another account
\* (counter, position, result, error, history) and nothing of the loaded
\* configuration; what it shares with the others is only appended to: the
\* log and the two streams.
C20_Frame ==
    [][ /\ mainPc \in {"run", "exited"} => config' = config
        /\ (mainPc = "run" /\ mainPc' = "run") =>
              \A a, b \in Tasks : (a # b /\ Moved(a)) => ~Moved(b)
        /\ IsPrefix(log, log') /\ IsPrefix(stderr, stderr') /\ IsPrefix(stdout, stdout')
      ]_vars

C20_Witness ==
    \E a, b \in Tasks :
        /\ a # b
        /\ result[a] = "Err" /\ retries[a] = 2
        /\ pc[b] = "text" /\ retries[b] = 0

====
